---- MODULE Spec2Model ----
(***************************************************************************)
(* The ETL scripts of the repository as one state machine.                 *)
(*                                                                         *)
(*   insert.py  : main() = connect -> reflect -> with engine.connect()     *)
(*                -> DataLoader -> load_places -> load_people -> finally   *)
(*   compute.py : main() = connect -> reflect -> with engine.connect()     *)
(*                -> PopulationAnalyzer -> compute_population_by_country   *)
(*                -> write_json -> finally                                 *)
(*                                                                         *)
(* Spec runs insert.py's main() and then, as a new process on the store    *)
(* the first left behind, compute.py's main().  SpecExample runs the       *)
(* script example.py, from its retry loop to its summary, on an empty      *)
(* store.  SpecWrite calls JSONOutputWriter.write_json repeatedly on one   *)
(* path with one argument.                                                 *)
(*                                                                         *)
(* Everything the environment decides (whether the database accepts a      *)
(* connection, whether a statement or a file operation fails, in which     *)
(* order the store returns grouped rows) is a nondeterministic choice.     *)
(***************************************************************************)
EXTENDS Integers, Sequences, FiniteSets, TLC

\* ---------------------------------------------------------------- bounds
MaxRetries == 3
MaxPlaces == 2
MaxPeople == 2
MaxWrites == 3
MaxExamples == 1

\* ------------------------------------------------------------ input data
\* Rows of /data/places.csv (header city,county,country).  Two rows share a
\* city name, and a people row may name a city the places file lacks.
PlaceRows ==
    { [city |-> "London", county |-> "Greater London", country |-> "UK"],
      [city |-> "London", county |-> "Ontario",        country |-> "CA"],
      [city |-> "Paris",  county |-> "Ile-de-France",  country |-> "FR"] }

\* Rows of /data/people.csv (header given_name,family_name,date_of_birth,
\* place_of_birth).
PersonRows ==
    { [given_name |-> "Ada", family_name |-> "Lovelace",
       date_of_birth |-> "1815-12-10", place_of_birth |-> "London"],
      [given_name |-> "Marie", family_name |-> "Curie",
       date_of_birth |-> "1867-11-07", place_of_birth |-> "Paris"] }

\* Rows of /data/example.csv (header name).
ExampleRows == { [name |-> "alpha"] }

SeqsUpTo(S, n) == UNION { [1..k -> S] : k \in 0..n }

\* ---------------------------------------------------------------- errors
\* A raised exception: its Python class, its message, and the class of the
\* exception it was raised `from` ("" when it is not a wrapper).
NoError == [type |-> "none", msg |-> "", cause |-> ""]

Raise(type, msg, cause) == [type |-> type, msg |-> msg, cause |-> cause]

VARIABLES
    run,          \* the script executing: "insert" | "compute" | "example"
    pc,           \* position inside main()
    max_retries,  \* DatabaseConnectionManager.max_retries
    attempt,      \* loop variable of `for attempt in range(max_retries)`
    outcomes,     \* outcome of each engine.connect() call made by connect()
    sleeps,       \* number of time.sleep(retry_delay) calls made by connect()
    engineBound,  \* 'engine' in locals() of main(); example.py binds it globally
    acquired,     \* Connection objects obtained from engine.connect() (lines 31, 119)
    dbOpen,       \* database connections currently open in this process
    pooled,       \* of those, the ones checked in to the engine's pool
    err,          \* the exception propagating out of main(), or NoError
    placesCsv,    \* data rows of /data/places.csv
    peopleCsv,    \* data rows of /data/people.csv
    places,       \* table places: sequence of rows in insertion order
    people,       \* table people: sequence of rows in insertion order
    place_cache,  \* DataLoader.place_cache: city -> id
    reader,       \* number of rows the current csv.DictReader has yielded
    steps,        \* log of the steps of main() that have ended: <<step, succeeded>>
    inserts,      \* log of INSERT statements executed: <<table, csv row, outcome>>
    stats,        \* population_stats: sequence of [k, v] (dict insertion order)
    fileExists,   \* whether the output JSON file exists
    fileContent,  \* its contents
    exampleCsv,   \* data rows of /data/example.csv
    examples,     \* table examples: sequence of rows in insertion order
    dumps,        \* the JSON files example.py has written: path -> contents
    wdata,        \* SpecWrite: the data argument of write_json
    wcalls,       \* SpecWrite: the exception (or NoError) each call so far ended with
    wprev         \* SpecWrite: file contents before the latest call

vars == << run, pc, max_retries, attempt, outcomes, sleeps, engineBound,
           acquired, dbOpen, pooled, err, placesCsv, peopleCsv, places,
           people, place_cache, reader, steps, inserts, stats,
           fileExists, fileContent, exampleCsv, examples, dumps,
           wdata, wcalls, wprev >>

connVars == << attempt, outcomes, sleeps, engineBound, acquired, dbOpen, pooled >>
storeVars == << places, people, place_cache, reader, inserts >>
fileVars == << fileExists, fileContent >>
inputVars == << max_retries, placesCsv, peopleCsv >>
writeVars == << wdata, wcalls, wprev >>
exampleVars == << exampleCsv, examples, dumps >>

\* A step of main() ended, by returning (ok) or by raising.
StepLog(step, ok) == [step |-> step, ok |-> ok]

\* ------------------------------------------------- the engine's pool
\* engine.connect() / a statement run on the engine checks a connection out
\* of the pool, opening a new one when none is idle.
Checkout == IF pooled > 0 THEN /\ pooled' = pooled - 1
                               /\ dbOpen' = dbOpen
                          ELSE /\ pooled' = pooled
                               /\ dbOpen' = dbOpen + 1

\* Leaving `with engine.connect() as connection:` closes the Connection,
\* which checks the database connection back in to the pool.
WithExit == /\ pooled' = pooled + 1
            /\ dbOpen' = dbOpen

\* A statement run on the engine itself (metadata.reflect(bind=engine)):
\* check out, use, check in.
EngineUse == IF pooled > 0 THEN /\ pooled' = pooled
                                /\ dbOpen' = dbOpen
                           ELSE /\ pooled' = 1
                                /\ dbOpen' = dbOpen + 1

\* ------------------------------------------ DatabaseConnectionManager
ExhaustedMsg(n) == "Could not connect to MySQL after " \o ToString(n) \o " attempts"

\* for attempt in range(0): the loop body never runs, line 40 raises.
ConnectNoAttempts ==
    /\ pc = "connect"
    /\ max_retries = 0
    /\ err' = Raise("Exception", "Unexpected connection failure", "")
    /\ pc' = "finally"
    /\ steps' = Append(steps, StepLog("connect", FALSE))
    /\ UNCHANGED << exampleVars, run, connVars, storeVars, stats, fileVars, inputVars, writeVars >>

\* self.engine.connect() succeeds: connect() returns self.engine.  The
\* Connection it obtained is never bound or closed (line 31); reference
\* counting reclaims it at the end of the statement, which checks the
\* database connection it holds in to the pool, still open.
ConnectOk ==
    /\ pc = "connect"
    /\ attempt < max_retries
    /\ outcomes' = Append(outcomes, "ok")
    /\ acquired' = acquired + 1
    /\ dbOpen' = dbOpen + 1
    /\ pooled' = pooled + 1
    /\ engineBound' = TRUE
    /\ pc' = "reflect"
    /\ steps' = Append(steps, StepLog("connect", TRUE))
    /\ UNCHANGED << exampleVars, run, attempt, sleeps, err, storeVars, stats, fileVars,
                    inputVars, writeVars >>

\* ConnectNotReady as the retry loop of a script that sleeps after every
\* failed attempt and raises once the loop is over.
ConnectNotReadySleepsOnLast ==
    /\ pc = "connect"
    /\ attempt < max_retries
    /\ outcomes' = Append(outcomes, "not_ready")
    /\ sleeps' = sleeps + 1
    /\ IF attempt = max_retries - 1
          THEN /\ err' = Raise("Exception", ExhaustedMsg(max_retries), "OperationalError")
               /\ pc' = "finally"
               /\ UNCHANGED attempt
          ELSE /\ attempt' = attempt + 1
               /\ UNCHANGED << pc, err >>
    /\ steps' = IF pc' = "finally" THEN Append(steps, StepLog("connect", FALSE)) ELSE steps
    /\ UNCHANGED << exampleVars, run, engineBound, acquired, dbOpen, pooled, storeVars, stats,
                    fileVars, inputVars, writeVars >>

\* self.engine.connect() raises OperationalError: on the last attempt the
\* wrapper is raised, otherwise sleep and go round the loop.
ConnectNotReady ==
    /\ pc = "connect"
    /\ attempt < max_retries
    /\ outcomes' = Append(outcomes, "not_ready")
    /\ IF attempt = max_retries - 1
          THEN /\ err' = Raise("Exception", ExhaustedMsg(max_retries), "OperationalError")
               /\ pc' = "finally"
               /\ UNCHANGED << attempt, sleeps >>
          ELSE /\ sleeps' = sleeps + 1
               /\ attempt' = attempt + 1
               /\ UNCHANGED << pc, err >>
    /\ steps' = IF pc' = "finally" THEN Append(steps, StepLog("connect", FALSE)) ELSE steps
    /\ UNCHANGED << exampleVars, run, engineBound, acquired, dbOpen, pooled, storeVars, stats,
                    fileVars, inputVars, writeVars >>

\* ConnectOther as if the handler were `except Exception`: any failure is
\* retried like the transient one.
ConnectOtherRetried ==
    /\ pc = "connect"
    /\ attempt < max_retries
    /\ outcomes' = Append(outcomes, "other")
    /\ IF attempt = max_retries - 1
          THEN /\ err' = Raise("Exception", ExhaustedMsg(max_retries), "ArgumentError")
               /\ pc' = "finally"
               /\ UNCHANGED << attempt, sleeps >>
          ELSE /\ sleeps' = sleeps + 1
               /\ attempt' = attempt + 1
               /\ UNCHANGED << pc, err >>
    /\ steps' = IF pc' = "finally" THEN Append(steps, StepLog("connect", FALSE)) ELSE steps
    /\ UNCHANGED << exampleVars, run, engineBound, acquired, dbOpen, pooled, storeVars, stats,
                    fileVars, inputVars, writeVars >>

\* self.engine.connect() raises something that is no OperationalError (a
\* missing driver, a malformed URL): no handler in connect() catches it.
ConnectOther ==
    /\ pc = "connect"
    /\ attempt < max_retries
    /\ outcomes' = Append(outcomes, "other")
    /\ err' = Raise("ArgumentError", "", "")
    /\ pc' = "finally"
    /\ steps' = Append(steps, StepLog("connect", FALSE))
    /\ UNCHANGED << exampleVars, run, attempt, sleeps, engineBound, acquired, dbOpen, pooled,
                    storeVars, stats, fileVars, inputVars, writeVars >>

\* --------------------------------------------------------------- main()
\* metadata.reflect(bind=engine)
Reflect ==
    /\ pc = "reflect"
    /\ EngineUse
    /\ \E ok \in BOOLEAN :
         IF ok THEN /\ pc' = "open"
                    /\ err' = err
               ELSE /\ pc' = "finally"
                    /\ err' = Raise("SQLAlchemyError", "", "")
    /\ steps' = Append(steps, StepLog("reflect", pc' = "open"))
    /\ UNCHANGED << exampleVars, run, attempt, outcomes, sleeps, engineBound, acquired,
                    storeVars, stats, fileVars, inputVars, writeVars >>

\* with engine.connect() as connection:
OpenConnection ==
    /\ pc = "open"
    /\ \E ok \in BOOLEAN :
         IF ok THEN /\ Checkout
                    /\ acquired' = acquired + 1
                    /\ pc' = "init"
                    /\ err' = err
               ELSE /\ pc' = "finally"
                    /\ err' = Raise("OperationalError", "", "")
                    /\ UNCHANGED << acquired, dbOpen, pooled >>
    /\ steps' = Append(steps, StepLog("open", pc' = "init"))
    /\ UNCHANGED << exampleVars, run, attempt, outcomes, sleeps, engineBound,
                    storeVars, stats, fileVars, inputVars, writeVars >>

\* DataLoader(connection, metadata) / PopulationAnalyzer(connection, metadata):
\* Table('places', ...) and Table('people', ...) with autoload.  A table the
\* reflected metadata holds is returned as it is.  One it lacks is reflected
\* through connection.engine, a statement run on the engine while the
\* Connection of the with block is checked out, and NoSuchTableError leaves
\* the constructor and the with block.
InitTables ==
    /\ pc = "init"
    /\ \E ok \in BOOLEAN :
         IF ok THEN /\ pc' = IF run = "insert" THEN "places_open" ELSE "compute"
                    /\ err' = err
                    /\ UNCHANGED << dbOpen, pooled >>
               ELSE /\ pc' = "finally"
                    /\ err' = Raise("NoSuchTableError", "", "")
                    /\ pooled' = (IF pooled > 0 THEN pooled ELSE 1) + 1
                    /\ dbOpen' = IF pooled > 0 THEN dbOpen ELSE dbOpen + 1
    /\ place_cache' = << >>
    /\ steps' = Append(steps, StepLog("init", err' = NoError))
    /\ UNCHANGED << exampleVars, run, attempt, outcomes, sleeps, engineBound, acquired,
                    places, people, reader, inserts, stats, fileVars,
                    inputVars, writeVars >>

\* ------------------------------------------------------------ DataLoader
\* The id MySQL generates for the next row of an AUTO_INCREMENT table that
\* has only ever been appended to.
NextId(table) == Len(table) + 1

\* CacheUpdate caching the 0-based position of the row instead of its key.
CacheUpdateRowIndex(cache, city, id) ==
    [c \in (DOMAIN cache) \cup {city} |-> IF c = city THEN id - 1 ELSE cache[c]]

\* self.place_cache[row['city']] = result.inserted_primary_key[0]
CacheUpdate(cache, city, id) ==
    [c \in (DOMAIN cache) \cup {city} |-> IF c = city THEN id ELSE cache[c]]

\* CacheGet falling back to the first place on a miss.
CacheGetFallback(cache, city) == IF city \in DOMAIN cache THEN cache[city] ELSE 1

\* self.place_cache.get(row['place_of_birth']): 0 stands for None (generated
\* ids start at 1).
CacheGet(cache, city) == IF city \in DOMAIN cache THEN cache[city] ELSE 0

PlaceRecord(id, row) ==
    [id |-> id, city |-> row.city, county |-> row.county, country |-> row.country]

PersonRecord(id, row, place_id) ==
    [id |-> id, given_name |-> row.given_name, family_name |-> row.family_name,
     date_of_birth |-> row.date_of_birth, place_of_birth_id |-> place_id]

\* Committed as if the load ran in one transaction that a failure rolls back.
RolledBack(table) == << >>

\* connection.execute(insert) autocommits: when a later statement fails, the
\* rows of the statements before it stay in the table.
Committed(table) == table

\* PlacesFailed as if load_places logged the failure and returned.
PlacesFailedSwallowed == "people_open"

\* raise Exception("Failed to insert places data") from e: the exception
\* leaves load_places, the with block and the try of main().
PlacesFailed == "finally"

\* What open(file_path, 'r') raises: an OSError (too many open files, a
\* symlink loop) or one of its subclasses; the handler of _load_csv, except
\* (FileNotFoundError, IOError), catches every one of them.
OpenErrors == { "OSError", "FileNotFoundError", "IsADirectoryError",
                "NotADirectoryError", "PermissionError" }

InsertLog(table, n, ok) == [table |-> table, row |-> n, ok |-> ok]

\* reader = self._load_csv(file_path) in load_places
PlacesOpen ==
    /\ pc = "places_open"
    /\ \/ /\ pc' = "places_rows"
          /\ err' = err
          /\ UNCHANGED << dbOpen, pooled >>
       \/ /\ pc' = "finally"
          /\ \E cause \in OpenErrors :
               err' = Raise("Exception", "Failed to open CSV file /data/places.csv", cause)
          /\ WithExit
    /\ reader' = 0
    /\ steps' = IF err' # NoError THEN Append(steps, StepLog("load_places", FALSE)) ELSE steps
    /\ UNCHANGED << exampleVars, run, attempt, outcomes, sleeps, engineBound, acquired,
                    places, people, place_cache, inserts, stats, fileVars,
                    inputVars, writeVars >>

\* One iteration of `for row in reader:` in load_places: the INSERT either
\* returns the generated key, which is cached under the row's city, or
\* raises SQLAlchemyError, which load_places wraps and raises.
PlacesRow ==
    /\ pc = "places_rows"
    /\ reader < Len(placesCsv)
    /\ LET row == placesCsv[reader + 1] IN
       \E ok \in BOOLEAN :
         IF ok THEN /\ places' = Append(places, PlaceRecord(NextId(places), row))
                    /\ place_cache' = CacheUpdate(place_cache, row.city, NextId(places))
                    /\ inserts' = Append(inserts, InsertLog("places", reader + 1, TRUE))
                    /\ UNCHANGED << pc, err, dbOpen, pooled >>
               ELSE /\ inserts' = Append(inserts, InsertLog("places", reader + 1, FALSE))
                    /\ err' = Raise("Exception", "Failed to insert places data",
                                    "SQLAlchemyError")
                    /\ pc' = PlacesFailed
                    /\ WithExit
                    /\ places' = Committed(places)
                    /\ UNCHANGED place_cache
    /\ reader' = reader + 1
    /\ steps' = IF err' # NoError THEN Append(steps, StepLog("load_places", FALSE)) ELSE steps
    /\ UNCHANGED << exampleVars, run, attempt, outcomes, sleeps, engineBound, acquired,
                    people, stats, fileVars, inputVars, writeVars >>

\* The reader is exhausted: load_places returns and main() calls load_people.
PlacesDone ==
    /\ pc = "places_rows"
    /\ reader = Len(placesCsv)
    /\ pc' = "people_open"
    /\ steps' = Append(steps, StepLog("load_places", TRUE))
    /\ UNCHANGED << exampleVars, run, connVars, err, storeVars, stats, fileVars, inputVars,
                    writeVars >>

\* reader = self._load_csv(file_path) in load_people
PeopleOpen ==
    /\ pc = "people_open"
    /\ \/ /\ pc' = "people_rows"
          /\ err' = err
          /\ UNCHANGED << dbOpen, pooled >>
       \/ /\ pc' = "finally"
          /\ \E cause \in OpenErrors :
               err' = Raise("Exception", "Failed to open CSV file /data/people.csv", cause)
          /\ WithExit
    /\ reader' = 0
    /\ steps' = IF err' # NoError THEN Append(steps, StepLog("load_people", FALSE)) ELSE steps
    /\ UNCHANGED << exampleVars, run, attempt, outcomes, sleeps, engineBound, acquired,
                    places, people, place_cache, inserts, stats, fileVars,
                    inputVars, writeVars >>

\* One iteration of `for row in reader:` in load_people: a cache miss raises
\* ValueError (no handler of load_people catches it); otherwise the INSERT
\* succeeds or raises SQLAlchemyError, which load_people wraps and raises.
PeopleRow ==
    /\ pc = "people_rows"
    /\ reader < Len(peopleCsv)
    /\ LET row == peopleCsv[reader + 1]
           place_id == CacheGet(place_cache, row.place_of_birth)
       IN
       IF place_id = 0
          THEN /\ err' = Raise("ValueError", "Place not found: " \o row.place_of_birth, "")
               /\ pc' = "finally"
               /\ WithExit
               /\ UNCHANGED << people, inserts >>
          ELSE \E ok \in BOOLEAN :
                 IF ok THEN /\ people' = Append(people,
                                           PersonRecord(NextId(people), row, place_id))
                            /\ inserts' = Append(inserts, InsertLog("people", reader + 1, TRUE))
                            /\ UNCHANGED << pc, err, dbOpen, pooled >>
                       ELSE /\ inserts' = Append(inserts, InsertLog("people", reader + 1, FALSE))
                            /\ err' = Raise("Exception", "Failed to insert people data",
                                            "SQLAlchemyError")
                            /\ pc' = "finally"
                            /\ WithExit
                            /\ people' = Committed(people)
    /\ reader' = reader + 1
    /\ steps' = IF err' # NoError THEN Append(steps, StepLog("load_people", FALSE)) ELSE steps
    /\ UNCHANGED << exampleVars, run, attempt, outcomes, sleeps, engineBound, acquired,
                    places, place_cache, stats, fileVars, inputVars, writeVars >>

\* The reader is exhausted: load_people returns, main() prints success and
\* leaves the with block.
PeopleDone ==
    /\ pc = "people_rows"
    /\ reader = Len(peopleCsv)
    /\ pc' = "finally"
    /\ WithExit
    /\ steps' = Append(steps, StepLog("load_people", TRUE))
    /\ UNCHANGED << exampleVars, run, attempt, outcomes, sleeps, engineBound, acquired, err,
                    storeVars, stats, fileVars, inputVars, writeVars >>

\* finally: if 'engine' in locals(): engine.dispose()   -- dispose closes the
\* connections checked in to the pool; then the process ends.
Finally ==
    /\ pc = "finally"
    /\ IF engineBound THEN /\ dbOpen' = dbOpen - pooled
                           /\ pooled' = 0
                      ELSE UNCHANGED << dbOpen, pooled >>
    /\ pc' = "exit"
    /\ steps' = steps
    /\ UNCHANGED << exampleVars, run, attempt, outcomes, sleeps, engineBound, acquired, err,
                    storeVars, stats, fileVars, inputVars, writeVars >>

\* ---------------------------------------------------- PopulationAnalyzer
\* A Python value handed to json.dump: an int, or an object json cannot
\* encode (a set, a Decimal, a date).
PyInt(n) == [t |-> "int", n |-> n]
PyObject == [t |-> "object", n |-> 0]

\* people JOIN places ON people.place_of_birth_id = places.id
JoinRows(ppl, plc) ==
    { r \in (1..Len(ppl)) \X (1..Len(plc)) : ppl[r[1]].place_of_birth_id = plc[r[2]].id }

\* PopulationRows as if the query selected from places LEFT JOIN people.
PopulationRowsOuter(ppl, plc) ==
    LET joined == JoinRows(ppl, plc)
        groups == { plc[j].country : j \in 1..Len(plc) }
    IN  { << c, Cardinality({ r \in joined : plc[r[2]].country = c }) >> : c \in groups }

\* SELECT places.country, count(people.id) ... GROUP BY places.country
PopulationRows(ppl, plc) ==
    LET joined == JoinRows(ppl, plc)
        groups == { plc[r[2]].country : r \in joined }
    IN  { << c, Cardinality({ r \in joined : plc[r[2]].country = c }) >> : c \in groups }

\* fetchall(): the rows in some order the store chooses.
Orderings(S) ==
    { f \in [1..Cardinality(S) -> S] : \A i, j \in DOMAIN f : i # j => f[i] # f[j] }

\* {row[0]: row[1] for row in rows}
DictOfRows(rows) == [i \in DOMAIN rows |-> [k |-> rows[i][1], v |-> PyInt(rows[i][2])]]

\* population_stats = analyzer.compute_population_by_country()
Compute ==
    /\ pc = "compute"
    /\ \E ok \in BOOLEAN :
         IF ok THEN /\ \E rows \in Orderings(PopulationRows(people, places)) :
                         stats' = DictOfRows(rows)
                    /\ pc' = "write"
                    /\ UNCHANGED << err, dbOpen, pooled >>
               ELSE /\ err' = Raise("Exception", "Failed to compute population statistics",
                                    "SQLAlchemyError")
                    /\ pc' = "finally"
                    /\ WithExit
                    /\ UNCHANGED stats
    /\ steps' = Append(steps, StepLog("compute", err' = NoError))
    /\ UNCHANGED << exampleVars, run, attempt, outcomes, sleeps, engineBound, acquired,
                    storeVars, fileVars, inputVars, writeVars >>

\* ------------------------------------------------------ JSONOutputWriter
\* The chunks json.dump(data, f, separators=(',', ':')) writes for a dict,
\* one f.write per chunk, from item i on.  A value json cannot encode raises
\* TypeError after the item's key and ':' have been written.
RECURSIVE ItemChunks(_, _)
ItemChunks(data, i) ==
    IF i > Len(data) THEN << "}" >>
    ELSE (IF i = 1 THEN << >> ELSE << "," >>)
         \o << "\"" \o data[i].k \o "\"", ":" >>
         \o (IF data[i].v.t = "int"
                THEN << ToString(data[i].v.n) >> \o ItemChunks(data, i + 1)
                ELSE << >>)

JsonChunks(data) == IF Len(data) = 0 THEN << "{}" >> ELSE << "{" >> \o ItemChunks(data, 1)

\* Whether json.dump raises TypeError on data.
Unserializable(data) == \E i \in DOMAIN data : data[i].v.t # "int"

\* OpenForWrite as if the mode were 'a'.
OpenForAppend(old) == old

\* open(output_path, 'w'): the file is created or truncated.
OpenForWrite(old) == ""

RECURSIVE WriteChunks(_, _, _)
\* json_file.write(chunk) for the first m chunks: each call appends to the
\* buffer of the file object, nothing reaches the file yet.
WriteChunks(buffer, chunks, m) ==
    IF m = 0 THEN buffer
    ELSE WriteChunks(buffer, chunks, m - 1) \o chunks[m]

\* Everything json.dump(data, json_file) put into the buffer before it
\* returned or raised.
JsonBuffer(data) == WriteChunks("", JsonChunks(data), Len(JsonChunks(data)))

\* Closing the file at the end of the with block flushes the buffer: the
\* operating system takes the first n bytes of it.
Flush(file, buffer, n) == file \o SubSeq(buffer, 1, n)

WriteFaults == { "none", "mkdir", "open", "write" }

WriteFailedMsg == "Failed to write JSON to /data/summary_output.json"

\* write_json(data, output_path) on a file (exists, content), where the
\* environment makes mkdir or open fail, or makes the write fail after `cut`
\* bytes reached the file (the OSError of the flush at close is the one the
\* handler sees, also when json.dump raised before).  The handler catches
\* IOError and json.JSONDecodeError only.  Returns the file and the
\* exception raised.
write_json(data, exists, content, fault, cut) ==
    LET buffer == JsonBuffer(data) IN
    IF fault \in { "mkdir", "open" }
       THEN [exists |-> exists, content |-> content,
             err |-> Raise("Exception", WriteFailedMsg, "OSError")]
    ELSE IF fault = "write" /\ cut < Len(buffer)
       THEN [exists |-> TRUE,
             content |-> Flush(OpenForWrite(content), buffer, cut),
             err |-> Raise("Exception", WriteFailedMsg, "OSError")]
    ELSE [exists |-> TRUE,
          content |-> Flush(OpenForWrite(content), buffer, Len(buffer)),
          err |-> IF Unserializable(data) THEN Raise("TypeError", "", "") ELSE NoError]

\* writer.write_json(population_stats, '/data/summary_output.json'), then
\* the success message and the end of the with block.
WriteSummary ==
    /\ pc = "write"
    /\ \E fault \in WriteFaults, cut \in 0..(Len(JsonBuffer(stats)) - 1) :
         (fault = "write" \/ cut = 0) /\
         LET r == write_json(stats, fileExists, fileContent, fault, cut) IN
           /\ fileExists' = r.exists
           /\ fileContent' = r.content
           /\ err' = r.err
    /\ pc' = "finally"
    /\ WithExit
    /\ steps' = Append(steps, StepLog("write", err' = NoError))
    /\ UNCHANGED << exampleVars, run, attempt, outcomes, sleeps, engineBound, acquired,
                    storeVars, stats, inputVars, writeVars >>

\* ----------------------------------------------------- the two processes
\* insert.py has exited; compute.py starts as a new process (no connection,
\* no Python state survives) on the store as the first one left it.
StartCompute ==
    /\ pc = "exit"
    /\ run = "insert"
    /\ run' = "compute"
    /\ pc' = "connect"
    /\ attempt' = 0
    /\ outcomes' = << >>
    /\ sleeps' = 0
    /\ engineBound' = FALSE
    /\ acquired' = 0
    /\ dbOpen' = 0
    /\ pooled' = 0
    /\ err' = NoError
    /\ place_cache' = << >>
    /\ reader' = 0
    /\ steps' = << >>
    /\ inserts' = << >>
    /\ UNCHANGED << exampleVars, places, people, stats, fileVars, inputVars, writeVars >>

\* ---------------------------------------------------------- example.py
\* A module-level script: an exception ends the process where it is raised
\* ("exit"); nothing closes the connection or disposes of the engine.
ExampleRetries == 10

ExampleExhausted == Raise("Exception", ExhaustedMsg(ExampleRetries), "")

\* connection = engine.connect() succeeds: break, with the Connection bound.
ExConnectOk ==
    /\ pc = "x_connect"
    /\ attempt < ExampleRetries
    /\ outcomes' = Append(outcomes, "ok")
    /\ acquired' = acquired + 1
    /\ dbOpen' = dbOpen + 1
    /\ pc' = "x_reflect"
    /\ steps' = Append(steps, StepLog("connect", TRUE))
    /\ UNCHANGED << run, attempt, sleeps, engineBound, pooled, err, storeVars,
                    stats, fileVars, inputVars, exampleVars, writeVars >>

\* engine.connect() raises OperationalError: print, sleep, next i; when the
\* range is used up i keeps its last value and the else clause of the for
\* raises.
ExConnectNotReady ==
    /\ pc = "x_connect"
    /\ attempt < ExampleRetries
    /\ outcomes' = Append(outcomes, "not_ready")
    /\ sleeps' = sleeps + 1
    /\ IF attempt = ExampleRetries - 1
          THEN /\ err' = ExampleExhausted
               /\ pc' = "exit"
               /\ steps' = Append(steps, StepLog("connect", FALSE))
               /\ UNCHANGED attempt
          ELSE /\ attempt' = attempt + 1
               /\ UNCHANGED << err, pc, steps >>
    /\ UNCHANGED << run, engineBound, acquired, dbOpen, pooled, storeVars, stats,
                    fileVars, inputVars, exampleVars, writeVars >>

\* engine.connect() raises something else: nothing catches it.
ExConnectOther ==
    /\ pc = "x_connect"
    /\ attempt < ExampleRetries
    /\ outcomes' = Append(outcomes, "other")
    /\ err' = Raise("ArgumentError", "", "")
    /\ pc' = "exit"
    /\ steps' = Append(steps, StepLog("connect", FALSE))
    /\ UNCHANGED << run, attempt, sleeps, engineBound, acquired, dbOpen, pooled,
                    storeVars, stats, fileVars, inputVars, exampleVars, writeVars >>

\* MetaData(engine) and the three Table(..., autoload=True,
\* autoload_with=engine): statements run on the engine while `connection`
\* is checked out.
ExReflect ==
    /\ pc = "x_reflect"
    /\ EngineUse
    /\ \/ /\ pc' = "x_examples_open"
          /\ err' = err
       \/ /\ pc' = "exit"
          /\ err' = Raise("NoSuchTableError", "", "")
    /\ steps' = Append(steps, StepLog("reflect", err' = NoError))
    /\ UNCHANGED << run, attempt, outcomes, sleeps, engineBound, acquired,
                    storeVars, stats, fileVars, inputVars, exampleVars, writeVars >>

ExOpenPcs == { "x_examples_open", "x_places_open", "x_people_open" }

ExRowsPc(p) == CASE p = "x_examples_open" -> "x_examples_rows"
                 [] p = "x_places_open" -> "x_places_rows"
                 [] p = "x_people_open" -> "x_people_rows"

ExStepOf(p) == CASE p \in { "x_examples_open", "x_examples_rows" } -> "load_examples"
                 [] p \in { "x_places_open", "x_places_rows" } -> "load_places"
                 [] p \in { "x_people_open", "x_people_rows" } -> "load_people"

\* The data rows of the CSV file opened at p.
ExCsvOf(p) == CASE p = "x_examples_open" -> exampleCsv
                [] p = "x_places_open" -> placesCsv
                [] p = "x_people_open" -> peopleCsv

\* with open('/data/<name>.csv') as csv_file: reader = csv.reader(csv_file);
\* next(reader).  The OSError of open() is not caught; on a file without
\* even the header line next(reader) raises StopIteration.
ExCsvOpen ==
    /\ pc \in ExOpenPcs
    /\ \/ /\ pc' = ExRowsPc(pc)
          /\ UNCHANGED << err, steps >>
       \/ /\ pc' = "exit"
          /\ \E cause \in OpenErrors : err' = Raise(cause, "", "")
          /\ steps' = Append(steps, StepLog(ExStepOf(pc), FALSE))
       \/ /\ ExCsvOf(pc) = << >>
          /\ pc' = "exit"
          /\ err' = Raise("StopIteration", "", "")
          /\ steps' = Append(steps, StepLog(ExStepOf(pc), FALSE))
    /\ reader' = 0
    /\ UNCHANGED << run, connVars, places, people, place_cache, inserts, stats,
                    fileVars, inputVars, exampleVars, writeVars >>

ExampleRecord(id, row) == [id |-> id, name |-> row.name]

\* connection.execute(Example.insert().values(name = row[0]))
ExExamplesRow ==
    /\ pc = "x_examples_rows"
    /\ reader < Len(exampleCsv)
    /\ \/ /\ examples' = Append(examples,
                                ExampleRecord(NextId(examples), exampleCsv[reader + 1]))
          /\ inserts' = Append(inserts, InsertLog("examples", reader + 1, TRUE))
          /\ UNCHANGED << pc, err, steps >>
       \/ /\ inserts' = Append(inserts, InsertLog("examples", reader + 1, FALSE))
          /\ err' = Raise("SQLAlchemyError", "", "")
          /\ pc' = "exit"
          /\ steps' = Append(steps, StepLog("load_examples", FALSE))
          /\ UNCHANGED examples
    /\ reader' = reader + 1
    /\ UNCHANGED << run, connVars, places, people, place_cache, stats, fileVars,
                    inputVars, exampleCsv, dumps, writeVars >>

\* connection.execute(Place.insert().values(city = row[0], county = row[1],
\* country = row[2]))
ExPlacesRow ==
    /\ pc = "x_places_rows"
    /\ reader < Len(placesCsv)
    /\ \/ /\ places' = Append(places, PlaceRecord(NextId(places), placesCsv[reader + 1]))
          /\ inserts' = Append(inserts, InsertLog("places", reader + 1, TRUE))
          /\ UNCHANGED << pc, err, steps >>
       \/ /\ inserts' = Append(inserts, InsertLog("places", reader + 1, FALSE))
          /\ err' = Raise("SQLAlchemyError", "", "")
          /\ pc' = "exit"
          /\ steps' = Append(steps, StepLog("load_places", FALSE))
          /\ UNCHANGED places
    /\ reader' = reader + 1
    /\ UNCHANGED << run, connVars, people, place_cache, stats, fileVars,
                    inputVars, exampleVars, writeVars >>

\* select([Place.c.id]).where(Place.c.city == row[3]) ... .fetchone(): the id
\* of the first row of that city in primary-key order, 0 for None.
FirstMatch(plc, city) ==
    LET hits == { j \in DOMAIN plc : plc[j].city = city } IN
    IF hits = {} THEN 0
    ELSE plc[CHOOSE j \in hits : \A h \in hits : j <= h].id

\* One iteration of the people loop: the SELECT, place_of_birth_id[0]
\* (TypeError on None), the INSERT.
ExPeopleRow ==
    /\ pc = "x_people_rows"
    /\ reader < Len(peopleCsv)
    /\ LET row == peopleCsv[reader + 1]
           place_id == FirstMatch(places, row.place_of_birth)
       IN
       \/ /\ err' = Raise("SQLAlchemyError", "", "")
          /\ pc' = "exit"
          /\ UNCHANGED << people, inserts >>
       \/ /\ place_id = 0
          /\ err' = Raise("TypeError", "'NoneType' object is not subscriptable", "")
          /\ pc' = "exit"
          /\ UNCHANGED << people, inserts >>
       \/ /\ place_id # 0
          /\ people' = Append(people, PersonRecord(NextId(people), row, place_id))
          /\ inserts' = Append(inserts, InsertLog("people", reader + 1, TRUE))
          /\ UNCHANGED << pc, err >>
       \/ /\ place_id # 0
          /\ inserts' = Append(inserts, InsertLog("people", reader + 1, FALSE))
          /\ err' = Raise("SQLAlchemyError", "", "")
          /\ pc' = "exit"
          /\ UNCHANGED people
    /\ steps' = IF err' # NoError THEN Append(steps, StepLog("load_people", FALSE)) ELSE steps
    /\ reader' = reader + 1
    /\ UNCHANGED << run, connVars, places, place_cache, stats, fileVars,
                    inputVars, exampleVars, writeVars >>

\* The reader of one of the three CSV files is exhausted: the with block
\* ends and the script goes on.
ExCsvDone ==
    /\ \/ pc = "x_examples_rows" /\ reader = Len(exampleCsv) /\ pc' = "x_places_open"
       \/ pc = "x_places_rows" /\ reader = Len(placesCsv) /\ pc' = "x_people_open"
       \/ pc = "x_people_rows" /\ reader = Len(peopleCsv) /\ pc' = "x_dump_examples"
    /\ steps' = Append(steps, StepLog(ExStepOf(pc), TRUE))
    /\ UNCHANGED << run, connVars, err, storeVars, stats, fileVars, inputVars,
                    exampleVars, writeVars >>

JsonStr(x) == "\"" \o x \o "\""

\* {'id': row[0], 'name': row[1]}
ExampleJson(r) == "{\"id\":" \o ToString(r.id) \o ",\"name\":" \o JsonStr(r.name) \o "}"

\* {'id': row[0], 'given_name': row[1], 'family_name': row[2],
\*  'date_of_birth': row[3], 'place_of_birth_id': row[4]}; the columns come
\* back as the strings that were inserted.
PersonJson(r) ==
    "{\"id\":" \o ToString(r.id) \o ",\"given_name\":" \o JsonStr(r.given_name)
    \o ",\"family_name\":" \o JsonStr(r.family_name)
    \o ",\"date_of_birth\":" \o JsonStr(r.date_of_birth)
    \o ",\"place_of_birth_id\":" \o ToString(r.place_of_birth_id) \o "}"

\* {'id': row[0], 'city': row[1], 'county': row[2], 'country': row[3]}
PlaceJson(r) ==
    "{\"id\":" \o ToString(r.id) \o ",\"city\":" \o JsonStr(r.city)
    \o ",\"county\":" \o JsonStr(r.county) \o ",\"country\":" \o JsonStr(r.country) \o "}"

RECURSIVE JsonArrayItems(_, _)
JsonArrayItems(texts, i) ==
    IF i > Len(texts) THEN "]"
    ELSE (IF i = 1 THEN "" ELSE ",") \o texts[i] \o JsonArrayItems(texts, i + 1)

\* json.dump(rows, json_file, separators=(',', ':')) for a list of dicts.
JsonArray(texts) == IF Len(texts) = 0 THEN "[]" ELSE "[" \o JsonArrayItems(texts, 1)

ExDumpPcs == { "x_dump_examples", "x_dump_people", "x_dump_places", "x_dump_places2" }

ExDumpPath(p) == CASE p = "x_dump_examples" -> "/data/example_python.json"
                   [] p = "x_dump_people" -> "/data/example_person.json"
                   [] p \in { "x_dump_places", "x_dump_places2" } -> "/data/example_place.json"

ExDumpText(p) ==
    CASE p = "x_dump_examples" -> JsonArray([i \in DOMAIN examples |-> ExampleJson(examples[i])])
      [] p = "x_dump_people" -> JsonArray([i \in DOMAIN people |-> PersonJson(people[i])])
      [] p \in { "x_dump_places", "x_dump_places2" } ->
            JsonArray([i \in DOMAIN places |-> PlaceJson(places[i])])

ExDumpNext(p) == CASE p = "x_dump_examples" -> "x_dump_people"
                   [] p = "x_dump_people" -> "x_dump_places"
                   [] p = "x_dump_places" -> "x_dump_places2"
                   [] p = "x_dump_places2" -> "x_summary"

SetFile(files, path, content) ==
    [q \in (DOMAIN files) \cup {path} |-> IF q = path THEN content ELSE files[q]]

\* with open(path, 'w') as json_file: select, fetchall, json.dump.  open()
\* may fail (the file is untouched); the query may fail once the file has
\* been truncated; the flush at the end of the with block may fail after
\* `cut` bytes.  None of the exceptions is caught.
ExFileStep(path, text, cut, fault) ==
    CASE fault = "open" ->
           /\ dumps' = dumps
           /\ \E cause \in OpenErrors : err' = Raise(cause, "", "")
      [] fault = "query" ->
           /\ dumps' = SetFile(dumps, path, OpenForWrite(""))
           /\ err' = Raise("SQLAlchemyError", "", "")
      [] fault = "write" ->
           /\ dumps' = SetFile(dumps, path, Flush(OpenForWrite(""), text, cut))
           /\ err' = Raise("OSError", "", "")
      [] fault = "none" ->
           /\ dumps' = SetFile(dumps, path, Flush(OpenForWrite(""), text, Len(text)))
           /\ err' = err

ExFaults == { "none", "open", "query", "write" }

\* One of the four table dumps (example_place.json is written twice).
ExDump ==
    /\ pc \in ExDumpPcs
    /\ LET text == ExDumpText(pc) IN
       \E fault \in ExFaults, cut \in 0..(Len(text) - 1) :
         /\ fault = "write" \/ cut = 0
         /\ ExFileStep(ExDumpPath(pc), text, cut, fault)
    /\ pc' = IF err' = NoError THEN ExDumpNext(pc) ELSE "exit"
    /\ steps' = Append(steps, StepLog("dump", err' = NoError))
    /\ UNCHANGED << run, connVars, storeVars, stats, fileVars, inputVars,
                    exampleCsv, examples, writeVars >>

\* with open('/data/output.json', 'w'): the population query, the dict, and
\* json.dump(result, json_file, separators=(',', ':')); then the script ends.
ExSummary ==
    /\ pc = "x_summary"
    /\ \/ /\ \E fault \in { "open", "query" } : ExFileStep("/data/output.json", "", 0, fault)
          /\ UNCHANGED stats
       \/ \E rows \in Orderings(PopulationRows(people, places)) :
            /\ stats' = DictOfRows(rows)
            /\ LET text == JsonBuffer(stats') IN
               \E fault \in { "none", "write" }, cut \in 0..(Len(text) - 1) :
                 /\ fault = "write" \/ cut = 0
                 /\ ExFileStep("/data/output.json", text, cut, fault)
    /\ pc' = "exit"
    /\ steps' = Append(steps, StepLog("summary", err' = NoError))
    /\ UNCHANGED << run, connVars, storeVars, fileVars, inputVars, exampleCsv,
                    examples, writeVars >>

Init ==
    /\ run = "insert"
    /\ pc = "connect"
    /\ max_retries \in 0..MaxRetries
    /\ exampleCsv = << >>
    /\ examples = << >>
    /\ dumps = << >>
    /\ attempt = 0
    /\ outcomes = << >>
    /\ sleeps = 0
    /\ engineBound = FALSE
    /\ acquired = 0
    /\ dbOpen = 0
    /\ pooled = 0
    /\ err = NoError
    /\ placesCsv \in SeqsUpTo(PlaceRows, MaxPlaces)
    /\ peopleCsv \in SeqsUpTo(PersonRows, MaxPeople)
    /\ places = << >>
    /\ people = << >>
    /\ place_cache = << >>
    /\ reader = 0
    /\ steps = << >>
    /\ inserts = << >>
    /\ stats = << >>
    /\ fileExists = FALSE
    /\ fileContent = ""
    /\ wdata = << >>
    /\ wcalls = << >>
    /\ wprev = ""

Next ==
    \/ ConnectNoAttempts
    \/ ConnectOk
    \/ ConnectNotReady
    \/ ConnectOther
    \/ Reflect
    \/ OpenConnection
    \/ InitTables
    \/ PlacesOpen
    \/ PlacesRow
    \/ PlacesDone
    \/ PeopleOpen
    \/ PeopleRow
    \/ PeopleDone
    \/ Compute
    \/ WriteSummary
    \/ Finally
    \/ StartCompute

Spec == Init /\ [][Next]_vars

\* ------------------------------------------------- example.py on its own
InitExample ==
    /\ run = "example"
    /\ pc = "x_connect"
    /\ max_retries = ExampleRetries
    /\ attempt = 0
    /\ outcomes = << >>
    /\ sleeps = 0
    /\ engineBound = TRUE
    /\ acquired = 0
    /\ dbOpen = 0
    /\ pooled = 0
    /\ err = NoError
    /\ placesCsv \in SeqsUpTo(PlaceRows, MaxPlaces)
    /\ peopleCsv \in SeqsUpTo(PersonRows, MaxPeople)
    /\ exampleCsv \in SeqsUpTo(ExampleRows, MaxExamples)
    /\ places = << >>
    /\ people = << >>
    /\ examples = << >>
    /\ place_cache = << >>
    /\ reader = 0
    /\ steps = << >>
    /\ inserts = << >>
    /\ stats = << >>
    /\ fileExists = FALSE
    /\ fileContent = ""
    /\ dumps = << >>
    /\ wdata = << >>
    /\ wcalls = << >>
    /\ wprev = ""

NextExample ==
    \/ ExConnectOk
    \/ ExConnectNotReady
    \/ ExConnectOther
    \/ ExReflect
    \/ ExCsvOpen
    \/ ExExamplesRow
    \/ ExPlacesRow
    \/ ExPeopleRow
    \/ ExCsvDone
    \/ ExDump
    \/ ExSummary

SpecExample == InitExample /\ [][NextExample]_vars

\* ------------------------------------------- write_json called repeatedly
WriteKeys == { "UK", "FR" }
WriteValues == { PyInt(1), PyInt(12), PyObject }

\* Dicts over WriteKeys in every insertion order.
WriteData ==
    { d \in SeqsUpTo([k : WriteKeys, v : WriteValues], Cardinality(WriteKeys)) :
        \A i, j \in DOMAIN d : i # j => d[i].k # d[j].k }

\* What may be at output_path before the first call: nothing, or a file.
OldFiles == { [exists |-> FALSE, content |-> ""],
              [exists |-> TRUE, content |-> "{\"FR\":7}"],
              [exists |-> TRUE, content |-> "{\"UK\":1,\"FR\":12,\"CA\":3}"] }

InitWrite ==
    /\ run = "write"
    /\ pc = "write"
    /\ exampleCsv = << >>
    /\ examples = << >>
    /\ dumps = << >>
    /\ max_retries = 0
    /\ attempt = 0
    /\ outcomes = << >>
    /\ sleeps = 0
    /\ engineBound = FALSE
    /\ acquired = 0
    /\ dbOpen = 0
    /\ pooled = 0
    /\ err = NoError
    /\ placesCsv = << >>
    /\ peopleCsv = << >>
    /\ places = << >>
    /\ people = << >>
    /\ place_cache = << >>
    /\ reader = 0
    /\ steps = << >>
    /\ inserts = << >>
    /\ stats = << >>
    /\ \E f \in OldFiles : fileExists = f.exists /\ fileContent = f.content
    /\ wdata \in WriteData
    /\ wcalls = << >>
    /\ wprev = ""

\* JSONOutputWriter.write_json(wdata, path), called again on the same path.
WriteCall ==
    /\ run = "write"
    /\ Len(wcalls) < MaxWrites
    /\ \E fault \in WriteFaults, cut \in 0..(Len(JsonBuffer(wdata)) - 1) :
         (fault = "write" \/ cut = 0) /\
         LET r == write_json(wdata, fileExists, fileContent, fault, cut) IN
           /\ fileExists' = r.exists
           /\ fileContent' = r.content
           /\ err' = r.err
           /\ wcalls' = Append(wcalls, r.err)
    /\ wprev' = fileContent
    /\ steps' = steps
    /\ UNCHANGED << exampleVars, run, pc, connVars, storeVars, stats, inputVars, wdata >>

NextWrite == WriteCall

SpecWrite == InitWrite /\ [][NextWrite]_vars

\* ================================================================ claims
\* A run of main() with its DatabaseConnectionManager, as opposed to the
\* script example.py.
ManagerRun == run \in { "insert", "compute" }
ConnectFinished == pc \notin { "connect", "x_connect" }
\* connect() handed main() the engine; example.py left its loop by break
\* with `connection` bound.
Connected == IF ManagerRun THEN engineBound ELSE acquired >= 1
AllNotReady == \A i \in DOMAIN outcomes : outcomes[i] = "not_ready"
MainOver == pc \in { "finally", "exit" }

\* C1: when every connection attempt fails with the transient failure,
\* connect() with max_retries = N >= 1 makes exactly N attempts, sleeps
\* exactly N-1 times (never after the last failed attempt) and raises the
\* error whose message carries N; it binds no engine in main().
C1_RetryExhaustion ==
    /\ (ManagerRun /\ pc = "connect" /\ max_retries >= 1 /\ AllNotReady)
          => (sleeps = Len(outcomes) /\ sleeps <= max_retries - 1)
    /\ (ManagerRun /\ ConnectFinished /\ max_retries >= 1 /\ AllNotReady)
          => /\ Len(outcomes) = max_retries
             /\ sleeps = max_retries - 1
             /\ err = Raise("Exception", ExhaustedMsg(max_retries), "OperationalError")
             /\ ~engineBound
             /\ MainOver

C1_Witness ==
    /\ ManagerRun
    /\ pc = "exit"
    /\ max_retries = 3
    /\ outcomes = << "not_ready", "not_ready", "not_ready" >>
    /\ sleeps = 2
    /\ err.msg = "Could not connect to MySQL after 3 attempts"

\* C2: every Person row inserted carries as place_of_birth_id the generated
\* id of a Place row whose city is the place_of_birth of the CSV row the
\* person came from, also when the places CSV repeats a city.
C2_PersonLinksToPlace ==
    /\ Len(people) <= Len(peopleCsv)
    /\ \A i \in DOMAIN people :
         /\ people[i].given_name = peopleCsv[i].given_name
         /\ \E j \in DOMAIN places :
              /\ places[j].id = people[i].place_of_birth_id
              /\ places[j].city = peopleCsv[i].place_of_birth
              /\ places[j].country = placesCsv[j].country

C2_Witness ==
    /\ run = "insert"
    /\ pc = "exit"
    /\ err = NoError
    /\ Len(placesCsv) = 2
    /\ placesCsv[1].city = "London"
    /\ placesCsv[2].city = "London"
    /\ Len(people) = 2
    /\ people[1].given_name = "Ada"
    /\ people[1].place_of_birth_id = 2
    /\ people[2].place_of_birth_id = 2

\* The next step of load_people meets a row whose city the cache lacks.
CacheMiss ==
    /\ pc = "people_rows"
    /\ reader < Len(peopleCsv)
    /\ peopleCsv[reader + 1].place_of_birth \notin DOMAIN place_cache

\* C3: on a people row whose place_of_birth is no key of the place cache,
\* load_people raises the missing-reference error (ValueError "Place not
\* found"), executes no INSERT for that row, and main() is over; from then
\* on no Person row is added or removed, so earlier rows stay and later rows
\* of the file are never inserted.
C3_MissingPlaceStops ==
    [][ /\ CacheMiss =>
             /\ err' = Raise("ValueError",
                             "Place not found: " \o peopleCsv[reader + 1].place_of_birth, "")
             /\ pc' = "finally"
             /\ people' = people
             /\ inserts' = inserts
        /\ (run = "insert" /\ err.type = "ValueError") =>
             /\ people' = people
             /\ pc' \in { "exit", "connect" }
             /\ Len(people) = reader - 1
      ]_vars

C3_Witness ==
    /\ run = "insert"
    /\ pc = "exit"
    /\ err = Raise("ValueError", "Place not found: Paris", "")
    /\ Len(peopleCsv) = 2
    /\ reader = 2
    /\ Len(people) = 1
    /\ people[1].given_name = "Ada"

\* The countries named by any place row.
Countries == { r.country : r \in PlaceRows } \cup { places[j].country : j \in DOMAIN places }

\* Number of Person rows linked to a Place of country c.
LinkedPeople(c) ==
    Cardinality({ i \in DOMAIN people :
                    \E j \in DOMAIN places : /\ places[j].id = people[i].place_of_birth_id
                                             /\ places[j].country = c })

\* compute_population_by_country() has returned in this run of compute.py;
\* in example.py, the summary query has returned and `result` is built.
Computed ==
    \/ /\ run = "compute"
       /\ \/ pc = "write"
          \/ MainOver /\ (err = NoError \/ err.msg = WriteFailedMsg)
    \/ /\ run = "example"
       /\ pc = "exit"
       /\ steps # << >>
       /\ steps[Len(steps)].step = "summary"
       /\ err.type \in { "none", "OSError" }
       /\ "/data/output.json" \in DOMAIN dumps

\* C4: the mapping compute_population_by_country() returns has as keys
\* exactly the countries with at least one linked Person, each mapped to the
\* number of Person rows linked to Places of that country; a country without
\* linked people is absent, never mapped to 0.
C4_PopulationByCountry ==
    Computed =>
      /\ \A i, j \in DOMAIN stats : i # j => stats[i].k # stats[j].k
      /\ \A i \in DOMAIN stats : /\ stats[i].k \in Countries
                                 /\ stats[i].v = PyInt(LinkedPeople(stats[i].k))
                                 /\ stats[i].v.n >= 1
      /\ \A c \in Countries : LinkedPeople(c) > 0 => \E i \in DOMAIN stats : stats[i].k = c

C4_Witness ==
    /\ run = "compute"
    /\ pc = "exit"
    /\ err = NoError
    /\ Len(places) = 2
    /\ places[1].country = "UK"
    /\ places[2].country = "FR"
    /\ Len(people) = 1
    /\ people[1].given_name = "Ada"
    /\ stats = << [k |-> "UK", v |-> PyInt(1)] >>
    /\ fileContent = "{\"UK\":1}"

\* C5: at the exit of main() at most one Connection was acquired in the run
\* and no database connection opened in the run is still open.
C5_AcquiredOnceReleased ==
    (run \in { "insert", "compute" } /\ pc = "exit") => (acquired <= 1 /\ dbOpen = 0)

\* C6: when the INSERT for the k-th data row of a CSV fails, the load raises
\* the wrapper for its table, the rows inserted for rows 1..k-1 stay in the
\* table, and no INSERT is executed after the failed one.
C6_FailedInsertKeepsEarlierRows ==
    \A n \in DOMAIN inserts :
      ~inserts[n].ok =>
        LET k == inserts[n].row IN
        /\ n = Len(inserts)
        /\ MainOver
        /\ IF inserts[n].table = "places"
              THEN /\ err = Raise("Exception", "Failed to insert places data",
                                  "SQLAlchemyError")
                   /\ Len(places) = k - 1
                   /\ \A j \in 1..(k - 1) : /\ places[j].city = placesCsv[j].city
                                            /\ places[j].county = placesCsv[j].county
                                            /\ places[j].country = placesCsv[j].country
                   /\ people = << >>
              ELSE /\ err = Raise("Exception", "Failed to insert people data",
                                  "SQLAlchemyError")
                   /\ Len(people) = k - 1
                   /\ Len(places) = Len(placesCsv)
                   /\ \A j \in 1..(k - 1) :
                        /\ people[j].given_name = peopleCsv[j].given_name
                        /\ people[j].family_name = peopleCsv[j].family_name
                        /\ people[j].date_of_birth = peopleCsv[j].date_of_birth

C6_Witness ==
    /\ run = "insert"
    /\ pc = "exit"
    /\ Len(placesCsv) = 2
    /\ inserts = << InsertLog("places", 1, TRUE), InsertLog("places", 2, FALSE) >>
    /\ Len(places) = 1
    /\ places[1].city = placesCsv[1].city
    /\ err.msg = "Failed to insert places data"

\* C7: every call of write_json either succeeds or raises the wrapper
\* ("Failed to write JSON ...") around its cause, for an I/O failure and for
\* a value json cannot serialize alike; no other exception leaves it.
C7_OnlyWrappedWriteErrors ==
    \A i \in DOMAIN wcalls :
      \/ wcalls[i] = NoError
      \/ /\ wcalls[i].type = "Exception"
         /\ wcalls[i].msg = WriteFailedMsg
         /\ wcalls[i].cause # ""

\* The compact JSON text of a dict of string keys and int values.
RECURSIVE JsonItems(_, _)
JsonItems(data, i) ==
    IF i > Len(data) THEN ""
    ELSE (IF i > 1 THEN "," ELSE "")
         \o "\"" \o data[i].k \o "\":" \o ToString(data[i].v.n)
         \o JsonItems(data, i + 1)

JsonText(data) == "{" \o JsonItems(data, 1) \o "}"

\* C8: for a JSON-compatible mapping, a successful write_json leaves at the
\* path exactly the compact JSON text of the mapping, whatever was there
\* before (replaced, never appended to), and a second successful call in
\* succession leaves the contents byte for byte as the first did.
C8_WriteIdempotent ==
    LET n == Len(wcalls) IN
    (~Unserializable(wdata) /\ n >= 1 /\ wcalls[n] = NoError) =>
      /\ fileExists
      /\ fileContent = JsonText(wdata)
      /\ (n >= 2 /\ wcalls[n - 1] = NoError) => fileContent = wprev

C8_Witness ==
    /\ wdata = << [k |-> "UK", v |-> PyInt(1)], [k |-> "FR", v |-> PyInt(12)] >>
    /\ wcalls = << NoError, NoError >>
    /\ wprev = "{\"UK\":1,\"FR\":12}"
    /\ fileContent = "{\"UK\":1,\"FR\":12}"

\* The steps of insert.py's main(), in the order the claim gives.
InsertSteps == << "connect", "reflect", "open", "init", "load_places", "load_people" >>

\* The INSERT statements of load_people logged so far.
PeopleInserts == { n \in DOMAIN inserts : inserts[n].table = "people" }

\* C9: the insert pipeline runs connect, reflect, load places, load people
\* in this order and a failure aborts the rest: an INSERT is executed only
\* after connect() returned the engine, a Person INSERT only after
\* load_places inserted every row of the places CSV without failure, and
\* once an exception is propagating no further step runs.
C9_PipelineOrder ==
    run = "insert" =>
      /\ Len(steps) <= Len(InsertSteps)
      /\ \A i \in DOMAIN steps : /\ steps[i].step = InsertSteps[i]
                                 /\ (i < Len(steps) => steps[i].ok)
                                 /\ (~steps[i].ok => (MainOver /\ err # NoError))
      /\ inserts # << >> =>
           /\ engineBound /\ outcomes[Len(outcomes)] = "ok"
           /\ Len(steps) >= 4
           /\ \A i \in 1..4 : steps[i].ok
      /\ PeopleInserts # {} =>
           /\ Len(steps) >= 5
           /\ steps[5] = StepLog("load_places", TRUE)
           /\ Len(inserts) > Len(placesCsv)
           /\ \A n \in 1..Len(placesCsv) : inserts[n] = InsertLog("places", n, TRUE)
           /\ \A n \in (Len(placesCsv) + 1)..Len(inserts) : inserts[n].table = "people"
           /\ Len(places) = Len(placesCsv)
      /\ PeopleInserts = {} => people = << >>
      /\ err # NoError => MainOver
      /\ (err # NoError /\ err.msg # "Failed to insert people data"
                        /\ err.msg # "Failed to insert places data")
            => \A n \in DOMAIN inserts : inserts[n].ok
      /\ ~engineBound => (places = << >> /\ people = << >>)

C9_Witness ==
    /\ run = "insert"
    /\ pc = "exit"
    /\ err = NoError
    /\ Len(placesCsv) = 2
    /\ Len(peopleCsv) = 2
    /\ Len(steps) = 6
    /\ steps[6] = StepLog("load_people", TRUE)
    /\ Len(inserts) = 4
    /\ inserts[2] = InsertLog("places", 2, TRUE)
    /\ inserts[3] = InsertLog("people", 1, TRUE)

\* C10: connect() retries only after the transient failure and stops at the
\* first success: after k-1 transient failures and a success on attempt k it
\* has made k attempts and k-1 sleeps and returned the engine, and nothing
\* is attempted or slept afterwards; a failure of another kind leaves
\* connect() at once, unwrapped, with no sleep for it.
C10_RetryOnlyTransient ==
    (ConnectFinished /\ outcomes # << >>) =>
      LET k == Len(outcomes) IN
      /\ k <= max_retries
      /\ \A i \in 1..(k - 1) : outcomes[i] = "not_ready"
      /\ outcomes[k] = "ok" => (Connected /\ sleeps = k - 1 /\ acquired >= 1)
      /\ outcomes[k] = "other" =>
           /\ ~Connected
           /\ sleeps = k - 1
           /\ err = Raise("ArgumentError", "", "")
           /\ MainOver

C10_Witness ==
    /\ ManagerRun
    /\ pc = "exit"
    /\ err = NoError
    /\ outcomes = << "not_ready", "not_ready", "ok" >>
    /\ sleeps = 2
    /\ engineBound

====
